---- MODULE Spec2Model ----
(***************************************************************************)
(* Model of app/bot.py: the command handlers add_task, delete_task and     *)
(* mark_completed, the exact-deadline alarm callback run by the job        *)
(* queue, and the daily sweep loop (run_notifiers / notify_due_tasks)      *)
(* that runs in its own thread.                                            *)
(*                                                                         *)
(* Texts are tuples of one-character strings, so that split, strip,        *)
(* strptime and SQLite's TEXT comparison are computed character by         *)
(* character.  Instants are seconds since 2024-01-01 00:00:00 local time.  *)
(***************************************************************************)
EXTENDS Integers, Sequences, FiniteSets, TLC

\* ------------------------------------------------------------------------
\* Model bounds
\* ------------------------------------------------------------------------

\* number of rows the table may ever receive (caps the AUTOINCREMENT counter)
MaxTasks == 2

\* number of distinct Telegram users issuing commands
MaxUsers == 2

\* number of clock steps of the handlers' clock after its initial instant
MaxTicks == 1

\* number of clock steps of the sweep loop's clock after its initial instant
MaxSweepTicks == 6

\* number of times the process is started
MaxBoots == 2

\* ------------------------------------------------------------------------
\* Characters and texts
\* ------------------------------------------------------------------------

DigitChars == <<"0", "1", "2", "3", "4", "5", "6", "7", "8", "9">>

IsDigit(c) == \E i \in 1..10 : DigitChars[i] = c

DigitVal(c) == (CHOOSE i \in 1..10 : DigitChars[i] = c) - 1

\* code point of the characters that occur in the modelled texts
Ord(c) ==
    IF IsDigit(c) THEN 48 + DigitVal(c)
    ELSE IF c = " " THEN 32
    ELSE IF c = "-" THEN 45
    ELSE IF c = ":" THEN 58
    ELSE IF c = ";" THEN 59
    ELSE 97

\* Python str / SQLite BINARY collation: lexicographic by code point,
\* a proper prefix is smaller
RECURSIVE TextLess(_, _)
TextLess(s, t) ==
    IF t = <<>> THEN FALSE
    ELSE IF s = <<>> THEN TRUE
    ELSE IF Ord(Head(s)) # Ord(Head(t)) THEN Ord(Head(s)) < Ord(Head(t))
    ELSE TextLess(Tail(s), Tail(t))

TextLeq(s, t) == s = t \/ TextLess(s, t)

\* str.strip(): drop leading and trailing whitespace
RECURSIVE LStrip(_)
LStrip(s) ==
    IF s # <<>> /\ Head(s) = " " THEN LStrip(Tail(s)) ELSE s

RECURSIVE RStrip(_)
RStrip(s) ==
    IF s # <<>> /\ s[Len(s)] = " " THEN RStrip(SubSeq(s, 1, Len(s) - 1)) ELSE s

Strip(s) == RStrip(LStrip(s))

\* str.split(";"): the fields between the separators, empty fields kept
RECURSIVE SplitSemi(_, _)
SplitSemi(s, cur) ==
    IF s = <<>> THEN <<cur>>
    ELSE IF Head(s) = ";" THEN <<cur>> \o SplitSemi(Tail(s), <<>>)
    ELSE SplitSemi(Tail(s), Append(cur, Head(s)))

Split(s) == SplitSemi(s, <<>>)

\* a character that str.isdigit() accepts and int() rejects: U+00B2
SuperscriptTwo == "²"

\* str.isdigit() on the characters of the model's alphabet: the decimal
\* digits and the digit characters that are not decimal
IsDigitText(s) ==
    s # <<>> /\ \A i \in 1..Len(s) : IsDigit(s[i]) \/ s[i] = SuperscriptTwo

\* int(s) of a text that str.isdigit() accepts returns a value; otherwise it
\* raises ValueError
IntParses(s) == \A i \in 1..Len(s) : IsDigit(s[i])

\* int() of a digit text
RECURSIVE IntOf(_)
IntOf(s) ==
    IF s = <<>> THEN 0 ELSE 10 * IntOf(SubSeq(s, 1, Len(s) - 1)) + DigitVal(s[Len(s)])

\* two-digit, zero-padded decimal
Fmt2(n) == <<DigitChars[(n \div 10) + 1], DigitChars[(n % 10) + 1]>>

\* decimal without padding (n < 100)
Fmt(n) == IF n < 10 THEN <<DigitChars[n + 1]>> ELSE Fmt2(n)

\* ------------------------------------------------------------------------
\* Calendar: instants are seconds since 2024-01-01 00:00:00
\* ------------------------------------------------------------------------

Day == 24 * 60 * 60
Hour == Day \div 24
Minute == Hour \div 60

Year2024 == <<"2", "0", "2", "4">>

\* datetime(y, m, d, H, M) as an instant; exact for the dates of January
\* 2024 that the model draws, monotone elsewhere (months counted as 31 days)
Instant(y, m, d, H, M) ==
    (((y - 2024) * 12 + (m - 1)) * 31 + (d - 1)) * Day + H * Hour + M * Minute

DateOf(t) == t \div Day

\* strftime('%Y-%m-%d') of an instant of January 2024
DateText(t) == Year2024 \o <<"-", "0", "1", "-">> \o Fmt2(DateOf(t) + 1)

\* 'HH:MM:SS' of an instant
TimeText(t) ==
    Fmt2((t % Day) \div Hour) \o <<":">> \o Fmt2((t % Hour) \div Minute)
        \o <<":">> \o Fmt2(t % Minute)

\* SQLite datetime(...): 'YYYY-MM-DD HH:MM:SS'
SqlDateTime(t) == DateText(t) \o <<" ">> \o TimeText(t)

\* number of consecutive digits of s from position i on
RECURSIVE DigitRun(_, _)
DigitRun(s, i) ==
    IF i <= Len(s) /\ IsDigit(s[i]) THEN 1 + DigitRun(s, i + 1) ELSE 0

\* number of consecutive blanks of s from position i on
RECURSIVE SpaceRun(_, _)
SpaceRun(s, i) ==
    IF i <= Len(s) /\ s[i] = " " THEN 1 + SpaceRun(s, i + 1) ELSE 0

DaysInMonth(y, m) ==
    IF m = 2 THEN (IF y % 4 = 0 /\ (y % 100 # 0 \/ y % 400 = 0) THEN 29 ELSE 28)
    ELSE IF m \in {4, 6, 9, 11} THEN 30
    ELSE 31

\* datetime.strptime(s, '%Y-%m-%d %H:%M'): four-digit year, then month, day,
\* hour and minute of one or two digits each (zero padding is optional), one
\* or more blanks between date and time, nothing after the minute.
\* ok = FALSE stands for ValueError.
Strptime(s) ==
    LET mPos == 6
        mLen == DigitRun(s, mPos)
        dPos == mPos + mLen + 1
        dBlank == dPos <= Len(s) /\ s[dPos] = " "
        dLen == IF dBlank THEN 1 + DigitRun(s, dPos + 1) ELSE DigitRun(s, dPos)
        wPos == dPos + dLen
        wLen == SpaceRun(s, wPos)
        hPos == wPos + wLen
        hLen == DigitRun(s, hPos)
        nPos == hPos + hLen + 1
        nLen == DigitRun(s, nPos)
        y == IntOf(SubSeq(s, 1, 4))
        m == IntOf(SubSeq(s, mPos, mPos + mLen - 1))
        d == IntOf(SubSeq(s, IF dBlank THEN dPos + 1 ELSE dPos, dPos + dLen - 1))
        h == IntOf(SubSeq(s, hPos, hPos + hLen - 1))
        n == IntOf(SubSeq(s, nPos, nPos + nLen - 1))
        shape ==
            /\ DigitRun(s, 1) = 4
            /\ Len(s) >= 5 /\ s[5] = "-"
            /\ mLen \in {1, 2}
            /\ Len(s) >= mPos + mLen /\ s[mPos + mLen] = "-"
            /\ IF dBlank THEN dLen = 2 ELSE dLen \in {1, 2}
            /\ wLen >= 1
            /\ hLen \in {1, 2}
            /\ Len(s) >= hPos + hLen /\ s[hPos + hLen] = ":"
            /\ nLen \in {1, 2}
            /\ nPos + nLen - 1 = Len(s)
        ok ==
            /\ shape
            /\ m \in 1..12
            /\ d \in 1..DaysInMonth(y, m)
            /\ h \in 0..23
            /\ n \in 0..59
    IN  IF ok THEN [ok |-> TRUE, t |-> Instant(y, m, d, h, n)]
        ELSE [ok |-> FALSE, t |-> 0]

\* ------------------------------------------------------------------------
\* Program constants and reply texts
\* ------------------------------------------------------------------------

DAILY_REMINDER_START == <<"0", "9", ":", "0", "0", ":", "0", "0">>

StartText == "Welcome to The Mighty To-Do List Bot!"
HelpText == "Here are the commands you can use with this bot: ..."

AddUsage == "Usage: /add <description>; <category>; <deadline: YYYY-MM-DD HH:MM>"
AddBadDate == "Invalid date format. Use YYYY-MM-DD HH:MM."
AddNotFuture == "The deadline must be in the future."
AddOk == "Task <id> added successfully!"
AddDbError == "Failed to add task due to a database error."
AddError == "Failed to add task due to an unexpected error."

DeleteUsage == "Usage: /delete <task_id>"
DeleteNotFound == "Task not found or does not belong to you."
DeleteOk == "Task deleted successfully!"
DeleteDbError == "Failed to delete task due to a database error."
DeleteError == "Failed to delete task due to an unexpected error."

CompleteUsage == "Usage: /complete <task_id>"
CompleteNotFound == "Task not found or already completed."
CompleteOk == "Task marked as completed successfully!"
CompleteDbError == "Failed to complete task due to a database error."
CompleteError == "Failed to complete task due to an unexpected error."

ListHeader == "id: description - category - completed - due by deadline"
ListNone == "No tasks found."
ListDbError == "Failed to list task due to a database error."
ListError == "Failed to list task due to an unexpected error."

\* ------------------------------------------------------------------------
\* State
\* ------------------------------------------------------------------------

VARIABLES
    now,            \* the host's wall clock
    tasks,          \* committed rows of table tasks: id -> row
    seq,            \* AUTOINCREMENT counter of the table (largest id ever used)
    jobs,           \* context.job_queue: pending one-shot jobs, oldest first
    running,        \* jobs whose alarm callback the scheduler has submitted and
                    \* whose send_message has not completed yet
    handler,        \* the handler being run: its command, the sqlite3 calls it
                    \* made, the reply it is awaiting and the number of
                    \* replies it has had delivered before
    reminded_today, \* run_notifiers' flag
    loop_pc,        \* run_notifiers' position
    due_tasks,      \* rows fetched by notify_due_tasks and not yet notified
    shutdown_event, \* the threading.Event
    main_pc,        \* main's position: in run_polling, in thread.join, returned
    boots,          \* number of times the process has been started
    daily_reminder_start,   \* the global DAILY_REMINDER_START of the process
    startup,        \* what main has done in this process before run_polling:
                    \* calls of init_db, handlers registered, in order, and
                    \* sweep threads started
    due_now,        \* history: 'due now' notifications delivered, per task id
    due_24h,        \* history: 'due in 24 hours' reminders delivered, per task id
    deleted_ok,     \* history: ids whose delete has replied success
    completed_ok,   \* history: ids whose complete has replied success
    sweeps,         \* history: number of sweeps started, per calendar date
    sweep_errors,   \* history: dates of the sweeps whose query raised
    listed,         \* history: the last reply of list_tasks whose query
                    \* succeeded, with its user, the user's rows it was
                    \* computed from and the notifications delivered by then;
                    \* forgotten when an add, delete or complete has run
    escaped         \* history: an exception has left a handler for the
                    \* dispatcher

dbVars == <<tasks, seq>>
mainVars == <<main_pc, boots, daily_reminder_start, startup>>
sweepVars == <<sweeps, sweep_errors>>
loopVars ==
    <<reminded_today, loop_pc, due_tasks, shutdown_event, sweepVars, mainVars>>
histVars ==
    <<due_now, due_24h, deleted_ok, completed_ok, listed, escaped>>
vars == <<now, tasks, seq, jobs, running, handler, loopVars, histVars>>

Users == 1..MaxUsers
TaskIds == 1..MaxTasks

Reply(text, id) == [text |-> text, task_id |-> id]

Idle ==
    [pc |-> "idle", cmd |-> "none", db |-> <<>>, reply |-> Reply("", 0),
     sent |-> 0]

\* no reply of list_tasks yet
NotListed ==
    [user |-> 0, tasks |-> <<>>, rows |-> <<>>,
     reply |-> [text |-> ListNone, task_id |-> 0, lines |-> <<>>],
     due_now |-> [i \in TaskIds |-> 0], due_24h |-> [i \in TaskIds |-> 0],
     repeated |-> FALSE, alarmed |-> FALSE, swept |-> FALSE]

\* steps of a handler at which the environment may make a call raise
Faults == {"none", "connect", "execute", "commit", "job_queue"}

\* ------------------------------------------------------------------------
\* Table tasks (SQLite)
\* ------------------------------------------------------------------------

\* INSERT INTO tasks (...) VALUES (?, ?, ?, ?, 0): AUTOINCREMENT gives an id
\* one above the largest id the table ever held
LastRowId(sq) == sq + 1

\* the same INSERT into a table whose id is INTEGER PRIMARY KEY without
\* AUTOINCREMENT: one above the largest id the table holds now
InsertTaskReusingIds(tbl, sq, u, description, category, deadline_str) ==
    [i \in DOMAIN tbl \cup {Cardinality({j \in 1..sq : \E k \in DOMAIN tbl : j <= k}) + 1} |->
        IF i \in DOMAIN tbl
        THEN tbl[i]
        ELSE [user_id |-> u, description |-> description,
              category |-> category, deadline |-> deadline_str,
              completed |-> FALSE]]

InsertTask(tbl, sq, u, description, category, deadline_str) ==
    [i \in DOMAIN tbl \cup {LastRowId(sq)} |->
        IF i = LastRowId(sq)
        THEN [user_id |-> u, description |-> description,
              category |-> category, deadline |-> deadline_str,
              completed |-> FALSE]
        ELSE tbl[i]]

\* the same query without user_id = ?
SelectOwnedAnyUser(tbl, u, id) == {i \in DOMAIN tbl : i = id}

\* SELECT id FROM tasks WHERE user_id = ? AND id = ?
SelectOwned(tbl, u, id) == {i \in DOMAIN tbl : i = id /\ tbl[i].user_id = u}

\* DELETE FROM tasks WHERE id = ? AND user_id = ?
\* a DELETE that removes no row
DeleteOwnedNone(tbl, u, id) == tbl

DeleteOwned(tbl, u, id) ==
    [i \in {j \in DOMAIN tbl : ~(j = id /\ tbl[j].user_id = u)} |-> tbl[i]]

\* the same query without AND completed = FALSE
SelectOpenAny(tbl, u, id) == {i \in DOMAIN tbl : i = id /\ tbl[i].user_id = u}

\* SELECT id FROM tasks WHERE user_id = ? AND id = ? AND completed = FALSE
SelectOpen(tbl, u, id) ==
    {i \in DOMAIN tbl : i = id /\ tbl[i].user_id = u /\ ~tbl[i].completed}

\* UPDATE tasks SET completed = TRUE WHERE id = ? AND user_id = ?
UpdateCompleted(tbl, u, id) ==
    [i \in DOMAIN tbl |->
        IF i = id /\ tbl[i].user_id = u
        THEN [tbl[i] EXCEPT !.completed = TRUE] ELSE tbl[i]]

\* ORDER BY completed, deadline: row i comes before row j.  completed is 0
\* or 1, deadline is the TEXT that add_task stored; rows with equal keys
\* come in the order of the table scan, by rowid
OrderedBefore(tbl, i, j) ==
    IF tbl[i].completed # tbl[j].completed THEN tbl[j].completed
    ELSE IF tbl[i].deadline # tbl[j].deadline
    THEN TextLess(tbl[i].deadline, tbl[j].deadline)
    ELSE i < j

\* the same query over the rows of all users
SelectAllUsers(tbl, u) == DOMAIN tbl

\* the same query restricted to the tasks with a pending alarm
SelectByUserPending(tbl, u) ==
    {i \in DOMAIN tbl :
        tbl[i].user_id = u /\ \E k \in 1..Len(jobs) : jobs[k].name = Fmt(i)}

\* SELECT ... FROM tasks WHERE user_id = ?: the ids of the rows
SelectByUser(tbl, u) == {i \in DOMAIN tbl : tbl[i].user_id = u}

\* SELECT id, description, category, completed, deadline FROM tasks
\* WHERE user_id = ? ORDER BY completed, deadline; fetchall(): the ids of the
\* rows in the order of the result
FetchAll(tbl, u) ==
    LET ids == SelectByUser(tbl, u)
        rank(i) == 1 + Cardinality({j \in ids : OrderedBefore(tbl, j, i)})
    IN  [k \in 1..Cardinality(ids) |-> CHOOSE i \in ids : rank(i) = k]

\* ------------------------------------------------------------------------
\* Job queue (python-telegram-bot JobQueue)
\* ------------------------------------------------------------------------

\* run_once without name=str(task_id): the job is registered under no name
RunOnceUnnamed(q, due, chat, u, description, id) ==
    Append(q, [name |-> <<>>, when |-> now + due, chat_id |-> chat,
               user_id |-> u,
               data |-> [message |-> <<"due now", description>>,
                         task_id |-> Fmt(id)]])

\* run_once called twice for the same task
RunOnceTwice(q, due, chat, u, description, id) ==
    LET job == [name |-> Fmt(id), when |-> now + due, chat_id |-> chat,
                user_id |-> u,
                data |-> [message |-> <<"due now", description>>,
                          task_id |-> Fmt(id)]]
    IN  Append(Append(q, job), job)

\* run_once with a delay of 0 in place of due
RunOnceAtOnce(q, due, chat, u, description, id) ==
    Append(q, [name |-> Fmt(id), when |-> now, chat_id |-> chat,
               user_id |-> u,
               data |-> [message |-> <<"due now", description>>,
                         task_id |-> Fmt(id)]])

\* job_queue.run_once(alarm, due, chat_id=..., user_id=..., data=..., name=...)
RunOnce(q, due, chat, u, description, id) ==
    Append(q, [name |-> Fmt(id), when |-> now + due, chat_id |-> chat,
               user_id |-> u,
               data |-> [message |-> <<"due now", description>>,
                         task_id |-> Fmt(id)]])

\* a lookup that matches no job (the name compared with the integer id)
GetJobsByNameNone(q, name) == SelectSeq(q, LAMBDA j : FALSE)

\* job_queue.get_jobs_by_name(name): the pending jobs of that name
GetJobsByName(q, name) == SelectSeq(q, LAMBDA j : j.name = name)

\* the loop over current_jobs without job.schedule_removal()
ScheduleRemovalNone(q, current_jobs) == q

\* for job in current_jobs: job.schedule_removal()
ScheduleRemoval(q, current_jobs) ==
    SelectSeq(q, LAMBDA j : \A k \in 1..Len(current_jobs) : current_jobs[k] # j)

\* a job that stays in the queue when it is run
RemoveAtNone(q, k) == q

\* a one-shot job leaves the queue when it is run
RemoveAt(q, k) == SubSeq(q, 1, k - 1) \o SubSeq(q, k + 1, Len(q))

\* ------------------------------------------------------------------------
\* Command handlers.  A handler runs on the event loop without suspending
\* until it awaits reply_text, so everything before the reply is one step;
\* the delivery of the reply is a second step.
\* ------------------------------------------------------------------------

\* the handler of command cmd has made the sqlite3 calls db and awaits the
\* reply_text of text
Outcome(cmd, db, text, id) ==
    [pc |-> "replying", cmd |-> cmd, db |-> db, reply |-> Reply(text, id),
     sent |-> 0]

\* if deadline < now
NotInFutureStrict(deadline, t) == deadline < t

\* if deadline <= now
NotInFuture(deadline, t) == deadline <= t

\* the first n sqlite3 calls of a handler that issues e statements
Calls(e, n) ==
    SubSeq(<<"connect">> \o [i \in 1..e |-> "execute"] \o <<"commit", "close">>,
           1, n)

\* add_task from its connect to its reply_text: the insert, lastrowid, the
\* commit, and run_once after deadline - now seconds
AddStore(u, chat, description, category, deadline_str, deadline, fault) ==
    IF fault = "connect"
    THEN /\ handler' = Outcome("add", Calls(1, 1), AddDbError, 0)
         /\ UNCHANGED <<tasks, seq, jobs>>
    ELSE IF fault = "execute"
    THEN /\ handler' = Outcome("add", Calls(1, 2), AddDbError, 0)
         /\ UNCHANGED <<tasks, seq, jobs>>
    ELSE IF fault = "commit"
    THEN /\ handler' = Outcome("add", Calls(1, 3), AddDbError, 0)
         /\ UNCHANGED <<tasks, seq, jobs>>
    ELSE /\ seq < MaxTasks
         /\ tasks' = InsertTask(tasks, seq, u, description, category,
                                deadline_str)
         /\ seq' = LastRowId(seq)
         /\ IF fault = "job_queue"
            THEN /\ jobs' = jobs
                 /\ handler' = Outcome("add", Calls(1, 4), AddError,
                                       LastRowId(seq))
            ELSE /\ jobs' = RunOnce(jobs, deadline - now, chat, u, description,
                                    LastRowId(seq))
                 /\ handler' = Outcome("add", Calls(1, 4), AddOk,
                                       LastRowId(seq))

\* add_task from strptime to its reply_text; deadline is strptime's result
AddParsed(u, chat, description, category, deadline_str, deadline, fault) ==
    IF ~deadline.ok
    THEN /\ handler' = Outcome("add", <<>>, AddBadDate, 0)
         /\ UNCHANGED <<tasks, seq, jobs>>
    ELSE IF NotInFuture(deadline.t, now)
    THEN /\ handler' = Outcome("add", <<>>, AddNotFuture, 0)
         /\ UNCHANGED <<tasks, seq, jobs>>
    ELSE AddStore(u, chat, description, category, deadline_str, deadline.t,
                  fault)

\* add_task from the test of len(args) to its reply_text
AddFields(u, chat, args, fault) ==
    IF Len(args) # 3
    THEN /\ handler' = Outcome("add", <<>>, AddUsage, 0)
         /\ UNCHANGED <<tasks, seq, jobs>>
    ELSE AddParsed(u, chat, Strip(args[1]), Strip(args[2]), Strip(args[3]),
                   Strptime(Strip(args[3])), fault)

\* add_task up to its reply_text; text is " ".join(context.args)
AddTask(u, chat, text, fault) ==
    /\ handler.pc = "idle"
    /\ ~shutdown_event
    /\ AddFields(u, chat, Split(text), fault)
    /\ UNCHANGED <<now, running, loopVars, histVars>>

\* delete_task from its connect on, failing when no alarm is pending under
\* the task id
DeleteByIdStrict(u, task_id, task, fault) ==
    IF fault = "connect"
    THEN /\ handler' = Outcome("delete", Calls(2, 1), DeleteDbError, task_id)
         /\ UNCHANGED <<tasks, jobs>>
    ELSE IF fault = "execute"
    THEN /\ handler' = Outcome("delete", Calls(2, 2), DeleteDbError, task_id)
         /\ UNCHANGED <<tasks, jobs>>
    ELSE IF task = {}
    THEN /\ handler' = Outcome("delete", Calls(2, 2) \o <<"close">>,
                               DeleteNotFound, task_id)
         /\ UNCHANGED <<tasks, jobs>>
    ELSE IF fault = "commit"
    THEN /\ handler' = Outcome("delete", Calls(2, 4), DeleteDbError, task_id)
         /\ UNCHANGED <<tasks, jobs>>
    ELSE /\ tasks' = DeleteOwned(tasks, u, task_id)
         /\ IF fault = "job_queue"
            THEN /\ jobs' = jobs
                 /\ handler' = Outcome("delete", Calls(2, 5), DeleteError,
                                       task_id)
            ELSE /\ jobs' = ScheduleRemoval(jobs,
                                            GetJobsByName(jobs, Fmt(task_id)))
                 /\ handler' = Outcome("delete", Calls(2, 5),
                                       IF GetJobsByName(jobs, Fmt(task_id)) = <<>>
                                       THEN DeleteError ELSE DeleteOk, task_id)

\* delete_task from its connect to its reply_text; task is the fetchone()
\* of the ownership query
DeleteById(u, task_id, task, fault) ==
    IF fault = "connect"
    THEN /\ handler' = Outcome("delete", Calls(2, 1), DeleteDbError, task_id)
         /\ UNCHANGED <<tasks, jobs>>
    ELSE IF fault = "execute"
    THEN /\ handler' = Outcome("delete", Calls(2, 2), DeleteDbError, task_id)
         /\ UNCHANGED <<tasks, jobs>>
    ELSE IF task = {}
    THEN /\ handler' = Outcome("delete", Calls(2, 2) \o <<"close">>,
                               DeleteNotFound, task_id)
         /\ UNCHANGED <<tasks, jobs>>
    ELSE IF fault = "commit"
    THEN /\ handler' = Outcome("delete", Calls(2, 4), DeleteDbError, task_id)
         /\ UNCHANGED <<tasks, jobs>>
    ELSE /\ tasks' = DeleteOwned(tasks, u, task_id)
         /\ IF fault = "job_queue"
            THEN /\ jobs' = jobs
                 /\ handler' = Outcome("delete", Calls(2, 5), DeleteError,
                                       task_id)
            ELSE /\ jobs' = ScheduleRemoval(jobs,
                                            GetJobsByName(jobs, Fmt(task_id)))
                 /\ handler' = Outcome("delete", Calls(2, 5), DeleteOk, task_id)

\* delete_task up to its reply_text; args is context.args
DeleteTask(u, chat, args, fault) ==
    /\ handler.pc = "idle"
    /\ ~shutdown_event
    /\ IF args = <<>> \/ ~IsDigitText(args[1])
       THEN /\ handler' = Outcome("delete", <<>>, DeleteUsage, 0)
            /\ UNCHANGED <<tasks, jobs>>
       ELSE IF ~IntParses(args[1])
       THEN /\ handler' = Outcome("delete", <<>>, DeleteError, 0)
            /\ UNCHANGED <<tasks, jobs>>
       ELSE DeleteById(u, IntOf(args[1]),
                       SelectOwned(tasks, u, IntOf(args[1])), fault)
    /\ UNCHANGED <<now, seq, running, loopVars, histVars>>

\* mark_completed from its connect on, also removing the task's alarm as
\* delete_task does
CompleteByIdCancelling(u, task_id, task, fault) ==
    IF fault = "connect"
    THEN /\ handler' = Outcome("complete", Calls(2, 1), CompleteDbError, task_id)
         /\ UNCHANGED <<tasks, jobs>>
    ELSE IF fault = "execute"
    THEN /\ handler' = Outcome("complete", Calls(2, 2), CompleteDbError, task_id)
         /\ UNCHANGED <<tasks, jobs>>
    ELSE IF task = {}
    THEN /\ handler' = Outcome("complete", Calls(2, 2) \o <<"close">>,
                               CompleteNotFound, task_id)
         /\ UNCHANGED <<tasks, jobs>>
    ELSE IF fault = "commit"
    THEN /\ handler' = Outcome("complete", Calls(2, 4), CompleteDbError, task_id)
         /\ UNCHANGED <<tasks, jobs>>
    ELSE /\ tasks' = UpdateCompleted(tasks, u, task_id)
         /\ jobs' = ScheduleRemoval(jobs, GetJobsByName(jobs, Fmt(task_id)))
         /\ handler' = Outcome("complete", Calls(2, 5), CompleteOk, task_id)

\* mark_completed from its connect to its reply_text; task is the
\* fetchone() of the query for an open task of the caller
CompleteById(u, task_id, task, fault) ==
    IF fault = "connect"
    THEN /\ handler' = Outcome("complete", Calls(2, 1), CompleteDbError, task_id)
         /\ UNCHANGED tasks
    ELSE IF fault = "execute"
    THEN /\ handler' = Outcome("complete", Calls(2, 2), CompleteDbError, task_id)
         /\ UNCHANGED tasks
    ELSE IF task = {}
    THEN /\ handler' = Outcome("complete", Calls(2, 2) \o <<"close">>,
                               CompleteNotFound, task_id)
         /\ UNCHANGED tasks
    ELSE IF fault = "commit"
    THEN /\ handler' = Outcome("complete", Calls(2, 4), CompleteDbError, task_id)
         /\ UNCHANGED tasks
    ELSE /\ tasks' = UpdateCompleted(tasks, u, task_id)
         /\ handler' = Outcome("complete", Calls(2, 5), CompleteOk, task_id)

\* mark_completed with the alarm's removal, up to its reply_text
MarkCompletedCancelling(u, chat, args, fault) ==
    /\ handler.pc = "idle"
    /\ ~shutdown_event
    /\ IF args = <<>> \/ ~IsDigitText(args[1])
       THEN /\ handler' = Outcome("complete", <<>>, CompleteUsage, 0)
            /\ UNCHANGED <<tasks, jobs>>
       ELSE IF ~IntParses(args[1])
       THEN /\ handler' = Outcome("complete", <<>>, CompleteError, 0)
            /\ UNCHANGED <<tasks, jobs>>
       ELSE CompleteByIdCancelling(u, IntOf(args[1]),
                                   SelectOpen(tasks, u, IntOf(args[1])), fault)
    /\ UNCHANGED <<now, seq, running, loopVars, histVars>>

\* mark_completed up to its reply_text; args is context.args
MarkCompleted(u, chat, args, fault) ==
    /\ handler.pc = "idle"
    /\ ~shutdown_event
    /\ IF args = <<>> \/ ~IsDigitText(args[1])
       THEN /\ handler' = Outcome("complete", <<>>, CompleteUsage, 0)
            /\ UNCHANGED tasks
       ELSE IF ~IntParses(args[1])
       THEN /\ handler' = Outcome("complete", <<>>, CompleteError, 0)
            /\ UNCHANGED tasks
       ELSE CompleteById(u, IntOf(args[1]),
                         SelectOpen(tasks, u, IntOf(args[1])), fault)
    /\ UNCHANGED <<now, seq, jobs, running, loopVars, histVars>>

\* 'True' if comp else 'False'
BoolText(comp) ==
    IF comp THEN <<"T", "r", "u", "e">> ELSE <<"F", "a", "l", "s", "e">>

\* f"{id}: {desc} - {cat} - {'True' if comp else 'False'} - due by {deadline}"
TaskLine(id, row) ==
    Fmt(id) \o <<":", " ">> \o row.description \o <<" ", "-", " ">>
        \o row.category \o <<" ", "-", " ">> \o BoolText(row.completed)
        \o <<" ", "-", " ", "d", "u", "e", " ", "b", "y", " ">> \o row.deadline

\* the message of list_tasks for the fetched rows: the header with one line
\* per row, or 'No tasks found.'
ListMessage(tbl, rows) ==
    [text |-> IF rows = <<>> THEN ListNone ELSE ListHeader,
     task_id |-> 0,
     lines |-> [k \in 1..Len(rows) |-> TaskLine(rows[k], tbl[rows[k]])]]

\* the rows of user u
RowsOf(tbl, u) == [i \in {j \in DOMAIN tbl : tbl[j].user_id = u} |-> tbl[i]]

\* list_tasks has replied to user u before, and the rows of u are the
\* ones that reply was computed from
ListedSame(u) == listed.user = u /\ listed.tasks = RowsOf(tasks, u)

\* what list_tasks has replied to user u, with the state it was computed
\* in; repeated: the reply before it was to the same user and computed from
\* the same rows; alarmed, swept: and an alarm, a reminder of a sweep was
\* delivered between the two
Listing(u, rows, message) ==
    [user |-> u, tasks |-> RowsOf(tasks, u), rows |-> rows,
     reply |-> message, due_now |-> due_now, due_24h |-> due_24h,
     repeated |-> ListedSame(u),
     alarmed |-> ListedSame(u) /\ listed.due_now # due_now,
     swept |-> ListedSame(u) /\ listed.due_24h # due_24h]

\* list_tasks from its connect to its reply_text; rows is fetchall().  The
\* connection is closed after the reply
ListFetched(u, rows, fault) ==
    IF fault = "connect"
    THEN /\ handler' = Outcome("list", Calls(1, 1), ListDbError, 0)
         /\ UNCHANGED listed
    ELSE IF fault = "execute"
    THEN /\ handler' = Outcome("list", Calls(1, 2), ListDbError, 0)
         /\ UNCHANGED listed
    ELSE /\ handler' = [pc |-> "replying", cmd |-> "list", db |-> Calls(1, 2),
                        reply |-> ListMessage(tasks, rows), sent |-> 0]
         /\ listed' = Listing(u, rows, ListMessage(tasks, rows))

\* list_tasks up to its reply_text
ListTasks(u, fault) ==
    /\ handler.pc = "idle"
    /\ ~shutdown_event
    /\ ListFetched(u, FetchAll(tasks, u), fault)
    /\ UNCHANGED <<now, tasks, seq, jobs, running, loopVars, due_now, due_24h,
                   deleted_ok, completed_ok, escaped>>

\* the awaited reply_text completes and the handler returns
ReplyDone ==
    /\ handler.pc = "replying"
    /\ handler' = Idle
    /\ deleted_ok' = IF handler.reply.text = DeleteOk
                     THEN deleted_ok \cup {handler.reply.task_id}
                     ELSE deleted_ok
    /\ completed_ok' = IF handler.reply.text = CompleteOk
                       THEN completed_ok \cup {handler.reply.task_id}
                       ELSE completed_ok
    /\ listed' = IF handler.cmd = "list" THEN listed ELSE NotListed
    /\ UNCHANGED <<now, tasks, seq, jobs, running, loopVars, due_now, due_24h,
                   escaped>>

\* the reply text of the 'except Exception' clause of a command's handler
UnexpectedError(cmd) ==
    IF cmd = "add" THEN AddError
    ELSE IF cmd = "delete" THEN DeleteError
    ELSE IF cmd = "complete" THEN CompleteError
    ELSE ListError

\* the handler awaits a reply_text inside one of its except clauses
InExcept(h) ==
    h.reply.text \in {AddDbError, AddError, DeleteDbError, DeleteError,
                      CompleteDbError, CompleteError, ListDbError, ListError}

\* the awaited reply_text raises (a telegram.error of the Bot API call).  In
\* the try block the exception goes to 'except Exception', which logs and
\* awaits the reply_text of the unexpected-error text; in an except clause
\* nothing catches it and it leaves the handler
ReplyRaises ==
    /\ handler.pc = "replying"
    /\ IF InExcept(handler)
       THEN /\ handler' = Idle
            /\ escaped' = TRUE
       ELSE /\ handler' = [handler EXCEPT
                              !.reply = Reply(UnexpectedError(handler.cmd),
                                              handler.reply.task_id)]
            /\ UNCHANGED escaped
    /\ listed' = IF handler.cmd = "list" THEN listed ELSE NotListed
    /\ UNCHANGED <<now, tasks, seq, jobs, running, loopVars, due_now, due_24h,
                   deleted_ok, completed_ok>>

\* start_command and help_command: one awaited reply_text, outside any try
StartCommand ==
    /\ handler.pc = "idle"
    /\ ~shutdown_event
    /\ handler' = Outcome("start", <<>>, StartText, 0)
    /\ UNCHANGED <<now, tasks, seq, jobs, running, loopVars, histVars>>

HelpCommand ==
    /\ handler.pc = "idle"
    /\ ~shutdown_event
    /\ handler' = Outcome("help", <<>>, HelpText, 0)
    /\ UNCHANGED <<now, tasks, seq, jobs, running, loopVars, histVars>>

\* the reply of the except sqlite3.Error clause of a handler
DatabaseError(cmd) ==
    IF cmd = "add" THEN AddDbError
    ELSE IF cmd = "delete" THEN DeleteDbError
    ELSE IF cmd = "complete" THEN CompleteDbError
    ELSE ListDbError

\* the replies after which the handler, still inside its try, calls
\* conn.close(): the not-found replies of delete_task and mark_completed
\* and the reply of list_tasks
ClosesAfterReply(h) ==
    \/ h.reply.text \in {DeleteNotFound, CompleteNotFound}
    \/ h.cmd = "list" /\ ~InExcept(h)

\* the awaited reply_text has delivered the reply and the conn.close()
\* that follows it raises sqlite3.Error: the except clause logs it and
\* replies once more
CloseRaises ==
    /\ handler.pc = "replying"
    /\ ClosesAfterReply(handler)
    /\ handler' = [handler EXCEPT
                      !.reply = Reply(DatabaseError(handler.cmd),
                                      handler.reply.task_id),
                      !.sent = @ + 1]
    /\ listed' = IF handler.cmd = "list" THEN listed ELSE NotListed
    /\ UNCHANGED <<now, tasks, seq, jobs, running, loopVars, due_now, due_24h,
                   deleted_ok, completed_ok, escaped>>

\* ------------------------------------------------------------------------
\* Exact-deadline alarms
\* ------------------------------------------------------------------------

\* a scheduler that removes the row of the task whose job it runs
FireExpiring(k) ==
    /\ ~shutdown_event
    /\ k \in 1..Len(jobs)
    /\ jobs[k].when <= now
    /\ running' = running \cup {jobs[k]}
    /\ jobs' = RemoveAt(jobs, k)
    /\ tasks' = [i \in DOMAIN tasks \ {IntOf(jobs[k].name)} |-> tasks[i]]
    /\ UNCHANGED <<now, seq, handler, loopVars, histVars>>

\* the scheduler finds job k due, removes the one-shot job from the queue
\* and submits its callback to the event loop
Fire(k) ==
    /\ ~shutdown_event
    /\ k \in 1..Len(jobs)
    /\ jobs[k].when <= now
    /\ running' = running \cup {jobs[k]}
    /\ jobs' = RemoveAt(jobs, k)
    /\ UNCHANGED <<now, tasks, seq, handler, loopVars, histVars>>

\* alarm(context) for job: the awaited send_message of job.data['message'] to
\* job.chat_id completes; sent = FALSE is send_message raising, which the
\* callback logs
Alarm(job, sent) ==
    /\ job \in running
    /\ due_now' = IF sent
                  THEN [due_now EXCEPT ![IntOf(job.data.task_id)] = @ + 1]
                  ELSE due_now
    /\ running' = running \ {job}
    /\ UNCHANGED <<now, tasks, seq, jobs, handler, loopVars, due_24h, deleted_ok,
                   completed_ok, listed, escaped>>

\* ------------------------------------------------------------------------
\* The daily sweep (its own thread)
\* ------------------------------------------------------------------------

\* DAILY_REMINDER_START taken on the first date of the calendar
ReminderStartFirstDay(t, start) ==
    Strptime(DateText(0) \o <<" ">> \o SubSeq(start, 1, 5)).t
        + IntOf(SubSeq(start, 7, 8))

\* datetime.strptime(f"{date} {DAILY_REMINDER_START}", "%Y-%m-%d %H:%M:%S")
ReminderStart(t, start) ==
    Strptime(DateText(t) \o <<" ">> \o SubSeq(start, 1, 5)).t
        + IntOf(SubSeq(start, 7, 8))

\* SELECT id, user_id, description FROM tasks
\* WHERE deadline >= datetime('now', 'localtime')
\* AND deadline < datetime('now', 'localtime', '+24 hours') AND completed = 0
\* (deadline is a TEXT column: both comparisons are comparisons of texts)
IsDue(row, t) ==
    /\ TextLeq(SqlDateTime(t), row.deadline)
    /\ TextLess(row.deadline, SqlDateTime(t + Day))
    /\ ~row.completed

\* the rows of the query, in rowid order, as fetchall() returns them
RECURSIVE FetchDue(_, _, _)
FetchDue(tbl, t, i) ==
    IF i > seq THEN <<>>
    ELSE IF i \in DOMAIN tbl /\ IsDue(tbl[i], t)
    THEN <<[task_id |-> i, user_id |-> tbl[i].user_id,
            description |-> tbl[i].description]>> \o FetchDue(tbl, t, i + 1)
    ELSE FetchDue(tbl, t, i + 1)

AddSweep(sw, d) ==
    IF d \in DOMAIN sw THEN [sw EXCEPT ![d] = @ + 1] ELSE sw @@ (d :> 1)

\* if reminder_start <= now, the flag not consulted
ShouldRemindAlways(reminder_start, t, reminded) == reminder_start <= t

\* if reminder_start <= now and not reminded_today
ShouldRemind(reminder_start, t, reminded) == reminder_start <= t /\ ~reminded

\* a wait that lasts its whole timeout although the event is set
WaitWholeTimeout(event) == "wait"

\* where shutdown_event.wait(timeout=60) leaves the loop: blocked until the
\* event is set or the timeout ends, or back at the loop test at once when
\* the event is already set
Wait(event) == IF event THEN "test" ELSE "wait"

\* shutdown_event.is_set()
IsSet(event) == event

\* one pass of run_notifiers' while loop, from the loop test up to either
\* the call of notify_due_tasks or shutdown_event.wait
Poll ==
    /\ loop_pc = "test"
    /\ IF IsSet(shutdown_event)
       THEN /\ loop_pc' = "done"
            /\ UNCHANGED <<reminded_today, sweeps>>
       ELSE LET reminder_start == ReminderStart(now, daily_reminder_start)
            IN  IF ShouldRemind(reminder_start, now, reminded_today)
                THEN /\ reminded_today' = TRUE
                     /\ loop_pc' = "query"
                     /\ sweeps' = AddSweep(sweeps, DateOf(now))
                ELSE IF reminder_start > now
                THEN /\ reminded_today' = FALSE
                     /\ loop_pc' = Wait(shutdown_event)
                     /\ UNCHANGED sweeps
                ELSE /\ loop_pc' = Wait(shutdown_event)
                     /\ UNCHANGED <<reminded_today, sweeps>>
    /\ UNCHANGED <<now, tasks, seq, jobs, running, handler, due_tasks,
                   shutdown_event, sweep_errors, mainVars, histVars>>

\* notify_due_tasks whose sqlite3.Error leaves run_notifiers
QueryEscaping(failed) ==
    /\ loop_pc = "query"
    /\ IF failed
       THEN /\ loop_pc' = "done"
            /\ due_tasks' = <<>>
            /\ sweep_errors' = sweep_errors \cup {DateOf(now)}
       ELSE /\ loop_pc' = "send"
            /\ due_tasks' = FetchDue(tasks, now, 1)
            /\ UNCHANGED sweep_errors
    /\ UNCHANGED <<now, tasks, seq, jobs, running, handler, reminded_today,
                   shutdown_event, sweeps, mainVars, histVars>>

\* notify_due_tasks up to fetchall(); failed = TRUE is connect or execute
\* raising, which is logged and ends the sweep
Query(failed) ==
    /\ loop_pc = "query"
    /\ IF failed
       THEN /\ loop_pc' = Wait(shutdown_event)
            /\ due_tasks' = <<>>
            /\ sweep_errors' = sweep_errors \cup {DateOf(now)}
       ELSE /\ loop_pc' = "send"
            /\ due_tasks' = FetchDue(tasks, now, 1)
            /\ UNCHANGED sweep_errors
    /\ UNCHANGED <<now, tasks, seq, jobs, running, handler, reminded_today,
                   shutdown_event, sweeps, mainVars, histVars>>

\* one iteration of notify_due_tasks' for loop, or its end; sent = FALSE is
\* send_message raising, which is caught outside the for loop
Send(sent) ==
    /\ loop_pc = "send"
    /\ IF due_tasks = <<>>
       THEN /\ loop_pc' = Wait(shutdown_event)
            /\ UNCHANGED <<due_tasks, due_24h>>
       ELSE IF sent
       THEN /\ due_24h' = [due_24h EXCEPT ![Head(due_tasks).task_id] = @ + 1]
            /\ due_tasks' = Tail(due_tasks)
            /\ loop_pc' = "send"
       ELSE /\ due_tasks' = <<>>
            /\ loop_pc' = Wait(shutdown_event)
            /\ due_24h' = due_24h
    /\ UNCHANGED <<now, tasks, seq, jobs, running, handler, reminded_today,
                   shutdown_event, sweepVars, mainVars, due_now, deleted_ok,
                   completed_ok, listed, escaped>>

\* main after run_polling has returned: shutdown_event.set(), which also
\* wakes a loop blocked in shutdown_event.wait
SetShutdown ==
    /\ main_pc = "polling"
    /\ ~shutdown_event
    /\ handler.pc = "idle"
    /\ shutdown_event' = TRUE
    /\ main_pc' = "joining"
    /\ loop_pc' = IF loop_pc = "wait" THEN "test" ELSE loop_pc
    /\ UNCHANGED <<now, tasks, seq, jobs, running, handler, reminded_today,
                   due_tasks, sweepVars, boots, daily_reminder_start, startup,
                   histVars>>

\* main: thread.join() returns once run_notifiers has returned, and main
\* logs 'done.'
Join ==
    /\ main_pc = "joining"
    /\ loop_pc = "done"
    /\ main_pc' = "returned"
    /\ UNCHANGED <<now, tasks, seq, jobs, running, handler, reminded_today,
                   loop_pc, due_tasks, shutdown_event, sweepVars, boots,
                   daily_reminder_start, startup,
                   histVars>>

\* main: run_polling raises an Exception; the except clause of main logs it
\* and main returns
PollingRaises ==
    /\ main_pc = "polling"
    /\ handler.pc = "idle"
    /\ main_pc' = "returned"
    /\ UNCHANGED <<now, tasks, seq, jobs, running, handler, reminded_today,
                   loop_pc, due_tasks, shutdown_event, sweepVars, boots,
                   daily_reminder_start, startup,
                   histVars>>

\* the commands main registers, in the order of its add_handler calls
HandlerOrder == <<"start", "help", "add", "list", "delete", "complete">>

\* main has not run yet
NotStarted == [init_db |-> 0, handlers |-> <<>>, threads |-> 0]

\* main has reached run_polling
Started == [init_db |-> 1, handlers |-> HandlerOrder, threads |-> 1]

\* main returns from init_db without the call having been made
InitDbSkipped(raises) ==
    /\ main_pc = "init_db"
    /\ main_pc' = IF raises THEN "returned" ELSE "build"
    /\ UNCHANGED <<now, tasks, seq, jobs, running, handler, reminded_today,
                   loop_pc, due_tasks, shutdown_event, sweepVars, boots,
                   daily_reminder_start, startup, histVars>>

\* main: init_db(), CREATE TABLE IF NOT EXISTS, which leaves the rows of an
\* existing table alone; raises: sqlite3 raising, which the except clause
\* of main logs before main returns
InitDb(raises) ==
    /\ main_pc = "init_db"
    /\ IF raises
       THEN main_pc' = "returned" /\ startup' = startup
       ELSE /\ main_pc' = "build"
            /\ startup' = [startup EXCEPT !.init_db = @ + 1]
    /\ UNCHANGED <<now, tasks, seq, jobs, running, handler, reminded_today,
                   loop_pc, due_tasks, shutdown_event, sweepVars, boots,
                   daily_reminder_start, histVars>>

\* main: Application.builder().token(TOKEN).build(), with an empty job
\* queue; raises: the builder raising (an invalid token)
Build(raises) ==
    /\ main_pc = "build"
    /\ main_pc' = IF raises THEN "returned" ELSE "add_handler"
    /\ jobs' = IF raises THEN jobs ELSE <<>>
    /\ UNCHANGED <<now, tasks, seq, running, handler, reminded_today,
                   loop_pc, due_tasks, shutdown_event, sweepVars, boots,
                   daily_reminder_start, startup, histVars>>

\* main: the next application.add_handler(CommandHandler(...)) call
AddHandler ==
    /\ main_pc = "add_handler"
    /\ LET k == Len(startup.handlers) + 1
       IN  /\ startup' = [startup EXCEPT
                             !.handlers = Append(@, HandlerOrder[k])]
           /\ main_pc' = IF k = Len(HandlerOrder)
                         THEN "thread" ELSE "add_handler"
    /\ UNCHANGED <<now, tasks, seq, jobs, running, handler, reminded_today,
                   loop_pc, due_tasks, shutdown_event, sweepVars, boots,
                   daily_reminder_start, histVars>>

\* main: thread = Thread(target=run_notifiers); thread.start(); main goes
\* on to run_polling while run_notifiers starts with reminded_today = False
ThreadStart ==
    /\ main_pc = "thread"
    /\ startup' = [startup EXCEPT !.threads = @ + 1]
    /\ reminded_today' = FALSE
    /\ loop_pc' = "test"
    /\ main_pc' = "polling"
    /\ UNCHANGED <<now, tasks, seq, jobs, running, handler, due_tasks,
                   shutdown_event, sweepVars, boots, daily_reminder_start,
                   histVars>>

\* a restart that finds the job queue as the process before it left it
RestartKeepingJobs ==
    /\ boots < MaxBoots
    /\ boots' = boots + 1
    /\ handler' = Idle
    /\ reminded_today' = FALSE
    /\ loop_pc' = "test"
    /\ due_tasks' = <<>>
    /\ shutdown_event' = FALSE
    /\ main_pc' = "polling"
    /\ UNCHANGED <<now, tasks, seq, jobs, running, sweepVars,
                   daily_reminder_start, startup,
                   histVars>>

\* the process ends, by a kill or after main and the sweep thread have
\* returned, and is started again: the table is kept (CREATE TABLE IF NOT
\* EXISTS), the job queue, the handlers and the sweep thread are new
Restart ==
    /\ boots < MaxBoots
    /\ boots' = boots + 1
    /\ jobs' = <<>>
    /\ running' = {}
    /\ handler' = Idle
    /\ reminded_today' = FALSE
    /\ loop_pc' = "test"
    /\ due_tasks' = <<>>
    /\ shutdown_event' = FALSE
    /\ main_pc' = "polling"
    /\ UNCHANGED <<now, tasks, seq, sweepVars, daily_reminder_start, startup,
                   histVars>>

\* ------------------------------------------------------------------------
\* The clock.  The sweep loop waits at most 60 seconds between two polls and
\* a clock step is longer than that: time advances only while the loop is
\* blocked in shutdown_event.wait(timeout=60) (or is not running), and the
\* step ends the wait.
\* ------------------------------------------------------------------------

Tick(start, step, max) ==
    /\ loop_pc \in {"wait", "off", "done"}
    /\ now + step <= start + max * step
    /\ now' = now + step
    /\ loop_pc' = IF loop_pc = "wait" THEN "test" ELSE loop_pc
    /\ UNCHANGED <<tasks, seq, jobs, running, handler, reminded_today,
                   due_tasks, shutdown_event, sweepVars, mainVars, histVars>>

\* ------------------------------------------------------------------------
\* Inputs
\* ------------------------------------------------------------------------

\* 'YYYY-MM-DD HH:MM' of an instant, zero padded
Padded(t) == DateText(t) \o <<" ">> \o SubSeq(TimeText(t), 1, 5)

\* the text after /add
AddText(description, category, deadline_str) ==
    description \o <<";", " ">> \o category \o <<";", " ">> \o deadline_str

\* context.args of /delete and /complete naming a task id
IdArgs == {<<Fmt(i)>> : i \in 1..MaxTasks}

\* context.args of /delete and /complete, also without an id
AnyArgs == IdArgs \cup {<<>>, <<<<"x">>>>}

\* update.effective_chat.id of a group chat that the bot is a member of
\* (the id of a private chat is the id of its user)
GroupChat == 0 - 1

\* the chats user u sends commands in
ChatsOf(u) == {u, GroupChat}

\* context.args of /delete and /complete that name no task id: none, a
\* letter, a digit character that is not decimal
BadArgs == {<<>>, <<<<"x">>>>, <<<<SuperscriptTwo>>>>}

\* the handlers' clock starts at 08:00 and advances in hours
StartClock == 8 * Hour

\* /add with a deadline of 09:00 the same day
AddTexts == {AddText(<<"a">>, <<"w">>, Padded(9 * Hour))}

\* the same, /add with a deadline that is no date, and /add with two fields
AnyTexts == AddTexts \cup {AddText(<<"a">>, <<"w">>, <<"x">>), <<"a", ";", "w">>}

\* 'YYYY-MM-DD H:MM' of an instant before 10:00, the hour not zero padded
Unpadded(t) == DateText(t) \o <<" ">> \o SubSeq(TimeText(t), 2, 5)

\* /add with a deadline of 10:00 the same day, and with one of 9:00 written
\* with a one-digit hour
ListTexts ==
    {AddText(<<"a">>, <<"w">>, Padded(10 * Hour)),
     AddText(<<"a">>, <<"w">>, Unpadded(9 * Hour))}

\* calls of list_tasks that the environment may make raise
ListFaults == {"none", "execute"}

\* /add with a description of blanks only, and with an empty category
BlankTexts ==
    {AddText(<<" ">>, <<"w">>, Padded(9 * Hour)),
     AddText(<<"a">>, <<>>, Padded(9 * Hour))}

\* the sweep loop's clock starts at 03:00 and advances in quarters of a day
SweepStart == 3 * Hour
QuarterDay == 6 * Hour

\* the clock of the runs with restarts starts at 21:00 and advances in
\* quarters of a day
RebootStart == 21 * Hour

\* /add with a deadline of 09:00 the next day
SweepTexts == {AddText(<<"a">>, <<"w">>, Padded(Day + 9 * Hour))}

\* ------------------------------------------------------------------------
\* Specifications
\* ------------------------------------------------------------------------

\* the state after main has started the application and the sweep thread,
\* with DAILY_REMINDER_START one of starts
InitMain(t, pc, starts, at, done) ==
    /\ now = t
    /\ tasks = <<>>
    /\ seq = 0
    /\ jobs = <<>>
    /\ running = {}
    /\ handler = Idle
    /\ reminded_today = FALSE
    /\ loop_pc = pc
    /\ due_tasks = <<>>
    /\ shutdown_event = FALSE
    /\ due_now = [i \in TaskIds |-> 0]
    /\ due_24h = [i \in TaskIds |-> 0]
    /\ deleted_ok = {}
    /\ completed_ok = {}
    /\ sweeps = <<>>
    /\ sweep_errors = {}
    /\ listed = NotListed
    /\ escaped = FALSE
    /\ main_pc = at
    /\ boots = 1
    /\ daily_reminder_start \in starts
    /\ startup = done

\* the process when main has reached run_polling
InitWith(t, pc, starts) == InitMain(t, pc, starts, "polling", Started)

InitAt(t, pc) == InitWith(t, pc, {DAILY_REMINDER_START})

Handle(users, texts, idargs, faults) ==
    \E u \in users, fault \in faults :
        \/ \E text \in texts : AddTask(u, u, text, fault)
        \/ \E args \in idargs : DeleteTask(u, u, args, fault)
        \/ \E args \in idargs : MarkCompleted(u, u, args, fault)

Alarms(outcomes) ==
    \/ \E k \in 1..Len(jobs) : Fire(k)
    \/ \E job \in running, sent \in outcomes : Alarm(job, sent)

\* handlers and alarms; every call they make succeeds
Init == InitAt(StartClock, "off")

Next ==
    \/ Handle(Users, AddTexts, IdArgs, {"none"})
    \/ ReplyDone
    \/ Alarms({TRUE})
    \/ Tick(StartClock, Hour, MaxTicks)

Spec == Init /\ [][Next]_vars

\* one user's handlers, whose calls succeed, and alarms whose send_message
\* may raise
NextAlarmFault ==
    \/ Handle({1}, AddTexts, IdArgs, {"none"})
    \/ ReplyDone
    \/ Alarms(BOOLEAN)
    \/ Tick(StartClock, Hour, MaxTicks)

SpecAlarmFault == Init /\ [][NextAlarmFault]_vars

\* one user's handlers with calls that raise, and alarms
NextFault ==
    \/ Handle({1}, AnyTexts, AnyArgs, Faults)
    \/ ReplyDone
    \/ Alarms(BOOLEAN)
    \/ Tick(StartClock, Hour, MaxTicks)

SpecFault == Init /\ [][NextFault]_vars

\* the sweep loop with its clock, one user's commands and the shutdown
InitSweep == InitAt(SweepStart, "test")

NextSweep ==
    \/ Poll
    \/ \E failed \in BOOLEAN : Query(failed)
    \/ \E sent \in BOOLEAN : Send(sent)
    \/ SetShutdown
    \/ Tick(SweepStart, QuarterDay, MaxSweepTicks)
    \/ Handle({1}, SweepTexts, IdArgs, {"none"})
    \/ ReplyDone

SpecSweep == InitSweep /\ [][NextSweep]_vars

\* the same when the sweep thread keeps running after shutdown_event is set:
\* its loop test, its query and its sends are eventually executed
SpecSweepLive ==
    /\ InitSweep
    /\ [][NextSweep]_vars
    /\ WF_vars(shutdown_event /\ Poll)
    /\ WF_vars(shutdown_event /\ \E failed \in BOOLEAN : Query(failed))
    /\ WF_vars(shutdown_event /\ \E sent \in BOOLEAN : Send(sent))

\* the sweep loop when DAILY_REMINDER_START is 09:00:00 or 00:00:00
Midnight == <<"0", "0", ":", "0", "0", ":", "0", "0">>

InitConfig == InitWith(SweepStart, "test", {DAILY_REMINDER_START, Midnight})

SpecConfig == InitConfig /\ [][NextSweep]_vars

\* the sweep loop over several runs of the process, with one user's /add
NextRestart ==
    \/ Poll
    \/ \E failed \in BOOLEAN : Query(failed)
    \/ \E sent \in BOOLEAN : Send(sent)
    \/ Tick(SweepStart, QuarterDay, MaxSweepTicks)
    \/ \E text \in SweepTexts : AddTask(1, 1, text, "none")
    \/ ReplyDone
    \/ Restart

SpecRestart == InitSweep /\ [][NextRestart]_vars

\* several runs of the process with the sweep loop, alarms, and one user's
\* /add and /delete; the process ends while no handler and no alarm
\* callback is running and the loop is in its wait
NextReboot ==
    \/ Poll
    \/ Query(FALSE)
    \/ Send(TRUE)
    \/ Tick(RebootStart, QuarterDay, MaxTicks + 2)
    \/ \E text \in SweepTexts : AddTask(1, 1, text, "none")
    \/ \E args \in IdArgs : DeleteTask(1, 1, args, "none")
    \/ ReplyDone
    \/ Alarms({TRUE})
    \/ handler.pc = "idle" /\ running = {} /\ loop_pc = "wait" /\ Restart

InitReboot == InitAt(RebootStart, "test")

SpecReboot == InitReboot /\ [][NextReboot]_vars

\* main and the sweep thread: run_polling returns or raises, with one user's
\* /add while the application polls
NextMain ==
    \/ Poll
    \/ \E failed \in BOOLEAN : Query(failed)
    \/ \E sent \in BOOLEAN : Send(sent)
    \/ SetShutdown
    \/ Join
    \/ PollingRaises
    \/ Tick(SweepStart, QuarterDay, MaxSweepTicks)
    \/ main_pc = "polling" /\ \E text \in SweepTexts : AddTask(1, 1, text, "none")
    \/ ReplyDone

SpecMain == InitSweep /\ [][NextMain]_vars

\* main from its first statement, with the sweep loop, one user's adds and
\* the shutdown
InitStart ==
    InitMain(SweepStart, "off", {DAILY_REMINDER_START}, "init_db", NotStarted)

NextStart ==
    \/ \E raises \in BOOLEAN : InitDb(raises)
    \/ \E raises \in BOOLEAN : Build(raises)
    \/ AddHandler
    \/ ThreadStart
    \/ Poll
    \/ Query(FALSE)
    \/ Send(TRUE)
    \/ SetShutdown
    \/ Join
    \/ PollingRaises
    \/ Tick(SweepStart, QuarterDay, MaxSweepTicks)
    \/ main_pc = "polling" /\ \E text \in SweepTexts : AddTask(1, 1, text, "none")
    \/ ReplyDone

SpecStart == InitStart /\ [][NextStart]_vars

\* one user's commands with arguments of every kind; every call succeeds
NextInput ==
    \/ Handle({1}, AnyTexts \cup BlankTexts, IdArgs \cup BadArgs, {"none"})
    \/ ReplyDone

SpecInput == Init /\ [][NextInput]_vars

\* one user's commands with calls that raise, reply_text included
NextReply ==
    \/ Handle({1}, AddTexts, IdArgs, Faults)
    \/ \E fault \in ListFaults : ListTasks(1, fault)
    \/ ReplyDone
    \/ ReplyRaises

SpecReply == Init /\ [][NextReply]_vars

\* the sweep loop started at 15:00, after DAILY_REMINDER_START, and one
\* user's adds of a task due at noon of the next day; every call succeeds
AfternoonStart == 15 * Hour

NoonTexts == {AddText(<<"a">>, <<"w">>, Padded(Day + 12 * Hour))}

InitAfternoon == InitAt(AfternoonStart, "test")

NextAfternoon ==
    \/ Poll
    \/ Query(FALSE)
    \/ Send(TRUE)
    \/ Tick(AfternoonStart, QuarterDay, MaxSweepTicks)
    \/ \E text \in NoonTexts : AddTask(1, 1, text, "none")
    \/ ReplyDone

SpecAfternoon == InitAfternoon /\ [][NextAfternoon]_vars

\* one user's adds, deletes and completes, the alarms and the sweep loop;
\* every call succeeds
NextFrame ==
    \/ Poll
    \/ Query(FALSE)
    \/ Send(TRUE)
    \/ Tick(RebootStart, QuarterDay, MaxTicks + 1)
    \/ Handle({1}, SweepTexts, IdArgs, {"none"})
    \/ ReplyDone
    \/ Alarms({TRUE})

SpecFrame == InitReboot /\ [][NextFrame]_vars

\* the six commands of one user; every reply_text succeeds, every other
\* call may raise
NextCommands ==
    \/ StartCommand
    \/ HelpCommand
    \/ Handle({1}, AnyTexts, AnyArgs, Faults)
    \/ \E fault \in ListFaults : ListTasks(1, fault)
    \/ ReplyDone
    \/ CloseRaises

SpecCommands == Init /\ [][NextCommands]_vars

\* one user's /add and /delete in a private chat and in a group chat, and
\* alarms
NextChat ==
    \/ \E chat \in ChatsOf(1), text \in AddTexts : AddTask(1, chat, text, "none")
    \/ \E chat \in ChatsOf(1), args \in IdArgs : DeleteTask(1, chat, args, "none")
    \/ ReplyDone
    \/ Alarms({TRUE})
    \/ Tick(StartClock, Hour, MaxTicks)

SpecChat == Init /\ [][NextChat]_vars

\* one user's handlers with list_tasks, and alarms
NextList ==
    \/ Handle({1}, ListTexts, IdArgs, {"none"})
    \/ \E fault \in ListFaults : ListTasks(1, fault)
    \/ ReplyDone
    \/ Alarms({TRUE})
    \/ Tick(StartClock, Hour, MaxTicks)

SpecList == Init /\ [][NextList]_vars

\* the sweep loop with its clock, one user's /add, /delete and /list, and
\* alarms; every call succeeds
NextListSweep ==
    \/ Poll
    \/ Query(FALSE)
    \/ Send(TRUE)
    \/ Tick(SweepStart, QuarterDay, MaxSweepTicks)
    \/ \E text \in SweepTexts : AddTask(1, 1, text, "none")
    \/ \E args \in IdArgs : DeleteTask(1, 1, args, "none")
    \/ ListTasks(1, "none")
    \/ ReplyDone
    \/ Alarms({TRUE})

SpecListSweep == InitSweep /\ [][NextListSweep]_vars

\* all users' handlers with list_tasks, before any alarm is due
NextOwners ==
    \/ Handle(Users, AddTexts, IdArgs, {"none"})
    \/ \E u \in Users : ListTasks(u, "none")
    \/ ReplyDone

SpecOwners == Init /\ [][NextOwners]_vars

\* one user's handlers and alarms under a scheduler that runs every due job
\* and a clock that keeps advancing
NextLive ==
    \/ Handle({1}, AddTexts, IdArgs, {"none"})
    \/ ReplyDone
    \/ Alarms({TRUE})
    \/ Tick(StartClock, Hour, MaxTicks)

SpecLive ==
    /\ Init
    /\ [][NextLive]_vars
    /\ WF_vars(Tick(StartClock, Hour, MaxTicks))
    /\ WF_vars(\E k \in 1..Len(jobs) : Fire(k))

\* ------------------------------------------------------------------------
\* Properties
\* ------------------------------------------------------------------------

\* the step of a handler from the arrival of the update to its reply_text
Handles(cmd) ==
    handler.pc = "idle" /\ handler'.pc = "replying" /\ handler'.cmd = cmd

\* positions of the pending alarms registered under task id i
PendingFor(q, i) == {k \in 1..Len(q) : q[k].name = Fmt(i)}

\* for every text after /add that is drawn: whether it has three fields
\* with a deadline in the accepted format, and that deadline
DeadlineOf ==
    [text \in AnyTexts |->
        IF Len(Split(text)) = 3
        THEN Strptime(Strip(Split(text)[3]))
        ELSE [ok |-> FALSE, t |-> 0]]

\* context.args names a task id
HasIdArg(args) == args # <<>> /\ IsDigitText(args[1])

C2_PastDeadlineRejected ==
    [][Handles("add") =>
        \A u \in Users, text \in AnyTexts :
          (/\ DeadlineOf[text].ok
           /\ DeadlineOf[text].t <= now
           /\ AddTask(u, u, text, "none"))
          => /\ handler'.reply.text = AddNotFuture
             /\ handler'.db = <<>>
             /\ tasks' = tasks
             /\ seq' = seq
             /\ jobs' = jobs
             /\ running' = running]_vars

\* a deadline equal to the current time has been rejected
C2_Witness ==
    /\ handler.pc = "replying"
    /\ handler.reply.text = AddNotFuture
    /\ \E text \in AddTexts : DeadlineOf[text].t = now

\* C3: a delete of an id whose row the caller owns removes that row and no
\* other, leaves no pending alarm under that id and replies 'Task deleted
\* successfully!'; a delete of an id whose delete has already replied
\* success replies 'Task not found or does not belong to you.'.
C3_DeleteRemovesRowAndAlarm ==
    [][Handles("delete") =>
        \A u \in Users, args \in AnyArgs :
          (/\ HasIdArg(args)
           /\ DeleteTask(u, u, args, "none"))
          => LET id == IntOf(args[1])
             IN  /\ (id \in DOMAIN tasks /\ tasks[id].user_id = u)
                    => /\ handler'.reply.text = DeleteOk
                       /\ DOMAIN tasks' = DOMAIN tasks \ {id}
                       /\ \A i \in DOMAIN tasks' : tasks'[i] = tasks[i]
                       /\ PendingFor(jobs', id) = {}
                 /\ id \in deleted_ok
                    => /\ handler'.reply.text = DeleteNotFound
                       /\ tasks' = tasks
                       /\ jobs' = jobs]_vars

\* a second delete of a deleted id is being answered while the alarm of
\* another task is pending
C3_Witness ==
    /\ handler.pc = "replying"
    /\ handler.cmd = "delete"
    /\ handler.reply.text = DeleteNotFound
    /\ handler.reply.task_id \in deleted_ok
    /\ jobs # <<>>

\* C4: once a delete of task id i has replied success, no 'due now'
\* notification for i is delivered.
C4_NoDueNowAfterDelete ==
    [][\A i \in deleted_ok : due_now'[i] = due_now[i]]_vars

\* C5: a complete of an id whose row the caller owns and that is not
\* completed sets that row's completed flag, changes nothing else and
\* replies 'Task marked as completed successfully!'; a complete of an id
\* whose complete has already replied success replies 'Task not found or
\* already completed.' and changes nothing.
C5_CompleteSetsFlag ==
    [][Handles("complete") =>
        \A u \in Users, args \in AnyArgs :
          (/\ HasIdArg(args)
           /\ MarkCompleted(u, u, args, "none"))
          => LET id == IntOf(args[1])
             IN  /\ (/\ id \in DOMAIN tasks
                     /\ tasks[id].user_id = u
                     /\ ~tasks[id].completed)
                    => /\ handler'.reply.text = CompleteOk
                       /\ tasks' = [tasks EXCEPT ![id].completed = TRUE]
                       /\ seq' = seq
                 /\ id \in completed_ok
                    => /\ handler'.reply.text = CompleteNotFound
                       /\ tasks' = tasks
                       /\ seq' = seq]_vars

\* a second complete of a completed task is being answered
C5_Witness ==
    /\ handler.pc = "replying"
    /\ handler.cmd = "complete"
    /\ handler.reply.text = CompleteNotFound
    /\ handler.reply.task_id \in completed_ok
    /\ handler.reply.task_id \in DOMAIN tasks

\* the alarm of task i has been handed to the event loop
Fired(i) == \E job \in running : job.name = Fmt(i)

\* C6: a complete changes neither the pending alarms nor the running alarm
\* callbacks, and the pending alarm of a completed task is fired unless
\* the task is deleted first.
C6_CompleteKeepsAlarm ==
    /\ [][Handles("complete") => jobs' = jobs /\ running' = running]_vars
    /\ \A i \in TaskIds :
          (i \in completed_ok /\ PendingFor(jobs, i) # {})
              ~> (Fired(i) \/ i \notin DOMAIN tasks)

\* the alarm of a task whose complete has replied success is being run
C6_Witness ==
    \E i \in completed_ok : i \in DOMAIN tasks /\ tasks[i].completed /\ Fired(i)

\* the running alarm callbacks of task id i
RunningFor(i) == {job \in running : job.name = Fmt(i)}

\* C7: for every task id, the 'due now' notifications delivered, the alarm
\* callbacks running and the alarms pending number at most one in total:
\* an alarm fires at most once, is retired by firing, and at most one
\* notification is delivered per task.
C7_AtMostOneDueNow ==
    \A i \in TaskIds :
        due_now[i] + Cardinality(RunningFor(i))
            + Cardinality(PendingFor(jobs, i)) <= 1

\* every task has been notified
C7_Witness == \A i \in TaskIds : due_now[i] = 1

\* C8: the job queue holds at most one pending alarm per task id.
C8_OnePendingAlarmPerTask ==
    \A i \in TaskIds : Cardinality(PendingFor(jobs, i)) <= 1

\* one task's alarm is pending after another task was completed, its alarm
\* fired, and the task deleted
C8_Witness ==
    /\ Len(jobs) = 1
    /\ deleted_ok # {}
    /\ completed_ok # {}
    /\ \E i \in deleted_ok : due_now[i] = 1

\* every pending alarm's task has a row
AlarmsHaveRows(q, tbl) == \A k \in 1..Len(q) : IntOf(q[k].name) \in DOMAIN tbl

C10_OneSweepPerDay ==
    [][/\ \A d \in DOMAIN sweeps' : sweeps'[d] <= 1
       /\ (loop_pc = "test" /\ loop_pc' # "test" /\ ~shutdown_event
             /\ ReminderStart(now, DAILY_REMINDER_START) <= now)
          => /\ DateOf(now) \in DOMAIN sweeps'
             /\ sweeps'[DateOf(now)] = 1]_vars

\* a poll of the second day, after that day's sweep, has started no sweep
C10_Witness ==
    /\ DOMAIN sweeps = {0, 1}
    /\ loop_pc = "wait"
    /\ reminded_today
    /\ now > Day + ReminderStart(0, DAILY_REMINDER_START)

\* the instant a stored deadline text denotes
DeadlineAt(row) == Strptime(row.deadline).t

\* the open tasks, of all owners, with t <= deadline < t + 24h
DueWithin24h(tbl, t) ==
    {i \in DOMAIN tbl :
        ~tbl[i].completed /\ t <= DeadlineAt(tbl[i]) /\ DeadlineAt(tbl[i]) < t + Day}

\* C11: the query of a sweep run at time now returns, once each, exactly
\* the tasks of all owners that are not completed and have
\* now <= deadline < now + 24h (a deadline equal to now included, a deadline
\* equal to now + 24h excluded).
C11_SweepWindow ==
    [][(loop_pc = "query" /\ loop_pc' = "send")
        => /\ {due_tasks'[k].task_id : k \in 1..Len(due_tasks')}
                = DueWithin24h(tasks, now)
           /\ Len(due_tasks') = Cardinality(DueWithin24h(tasks, now))]_vars

\* C12: over executions with process restarts no calendar date has more
\* than one sweep, and after every poll of any process instance that
\* observes a time at or after DAILY_REMINDER_START exactly one sweep has
\* been started on that date.
C12_OneSweepPerDayAcrossRestarts ==
    [][/\ \A d \in DOMAIN sweeps' : sweeps'[d] <= 1
       /\ (loop_pc = "test" /\ loop_pc' \in {"query", "wait"}
             /\ ReminderStart(now, daily_reminder_start) <= now)
          => /\ DateOf(now) \in DOMAIN sweeps'
             /\ sweeps'[DateOf(now)] = 1]_vars

\* a step of the sweep loop from its loop test to the sweep or to the wait
Polls == loop_pc = "test" /\ loop_pc' \in {"query", "wait"}

\* seconds after midnight of an 'HH:MM:SS' text
SecondsOfDay(start) ==
    IntOf(SubSeq(start, 1, 2)) * Hour + IntOf(SubSeq(start, 4, 5)) * Minute
        + IntOf(SubSeq(start, 7, 8))

Sends ==
    /\ loop_pc = "send"
    /\ due_tasks # <<>>
    /\ (due_tasks' # due_tasks \/ loop_pc' # "send")

\* C14: within one sweep, whether the send for a fetched task succeeds or
\* raises, the tasks fetched after it remain to be attempted: a send is
\* attempted for every task the sweep query returned.
C14_FailedSendKeepsRest ==
    [][Sends => due_tasks' = Tail(due_tasks)]_vars

\* the step of a sweep whose connect or execute raises
QueryFails == loop_pc = "query" /\ sweep_errors' # sweep_errors

\* C15: a sweep whose repository call fails sends nothing and returns to
\* the loop's wait (the loop keeps running; the wait is over at once when
\* shutdown_event is set); no later poll of that date starts another sweep,
\* and the first poll at or after DAILY_REMINDER_START of the next day
\* starts that day's sweep.
C15_FailedQueryEndsSweepOnly ==
    [][/\ QueryFails
          => /\ loop_pc' = IF shutdown_event THEN "test" ELSE "wait"
             /\ due_tasks' = <<>>
             /\ due_24h' = due_24h
             /\ reminded_today'
       /\ (Polls /\ DateOf(now) \in sweep_errors) => sweeps' = sweeps
       /\ (Polls /\ DateOf(now) - 1 \in sweep_errors
             /\ now % Day >= SecondsOfDay(daily_reminder_start))
          => /\ DateOf(now) \in DOMAIN sweeps'
             /\ sweeps'[DateOf(now)] = 1]_vars

\* the sweep of the second day has been started after the query of the
\* first day's sweep failed
C15_Witness ==
    /\ 0 \in sweep_errors
    /\ DOMAIN sweeps = {0, 1}
    /\ sweeps[1] = 1
    /\ loop_pc = "query"

\* C16: once shutdown_event is set the sweep loop terminates; the signal
\* wakes a loop blocked in its wait; a loop at its loop test after the
\* signal exits without starting a sweep; a loop in a sweep is never
\* blocked in the wait again and reaches that loop test.
C16_ShutdownEndsLoop ==
    /\ shutdown_event ~> loop_pc = "done"
    /\ [](shutdown_event => loop_pc # "wait")
    /\ [][(shutdown_event /\ loop_pc = "test" /\ loop_pc' # "test")
           => loop_pc' = "done" /\ sweeps' = sweeps /\ due_24h' = due_24h]_vars

\* the loop has terminated after a signal that came during a sweep
C16_Witness ==
    /\ loop_pc = "done"
    /\ shutdown_event
    /\ DateOf(now) \in DOMAIN sweeps
    /\ \E i \in TaskIds : due_24h[i] > 0

\* C17: when main has returned after the sweep thread was started,
\* shutdown_event has been set and run_notifiers has returned (the thread
\* was joined), also when run_polling ended by an exception.
C17_ReturnedAfterJoin ==
    main_pc = "returned" => shutdown_event /\ loop_pc = "done"

\* list_tasks computes the reply of a query that succeeded
ListReplies ==
    /\ handler.pc = "idle"
    /\ handler'.pc = "replying"
    /\ handler'.cmd = "list"
    /\ handler'.reply.text # ListDbError

\* the ids of the rows that user u owns
OwnedBy(u) == {i \in DOMAIN tasks : tasks[i].user_id = u}

\* C18: the reply of list_tasks holds every row of the caller once, every
\* incomplete task before every completed one and, within each group, in
\* ascending order of the instants that the deadlines denote; for a caller
\* without rows it is exactly 'No tasks found.'.
C18_ListOrder ==
    [][ListReplies =>
        LET rows == listed'.rows
            owned == OwnedBy(listed'.user)
        IN  /\ {rows[k] : k \in 1..Len(rows)} = owned
            /\ Len(rows) = Cardinality(owned)
            /\ Len(handler'.reply.lines) = Len(rows)
            /\ \A k, l \in 1..Len(rows) :
                   k < l =>
                      /\ tasks[rows[k]].completed => tasks[rows[l]].completed
                      /\ tasks[rows[k]].completed = tasks[rows[l]].completed
                            => DeadlineAt(tasks[rows[k]]) <= DeadlineAt(tasks[rows[l]])
            /\ owned = {} <=> handler'.reply.text = ListNone
            /\ owned = {} => handler'.reply.lines = <<>>]_vars

\* list_tasks runs up to its reply_text
Lists ==
    handler.pc = "idle" /\ handler'.pc = "replying" /\ handler'.cmd = "list"

\* C19: list_tasks changes no row and no alarm, and replies to an owner what
\* it replied to that owner the last time when no add, delete or complete
\* has run since, whatever alarms and sweeps have run since.
C19_ListPureIdempotent ==
    [][Lists =>
        /\ <<tasks, seq, jobs, running>>' = <<tasks, seq, jobs, running>>
        /\ (ListReplies /\ listed.user = listed'.user)
              => handler'.reply = listed.reply]_vars

\* list_tasks has replied twice from the same rows, with an alarm and a
\* reminder of a sweep delivered between the two replies
C19_Witness ==
    /\ handler.pc = "replying"
    /\ handler.cmd = "list"
    /\ listed.rows # <<>>
    /\ listed.repeated
    /\ listed.alarmed
    /\ listed.swept

\* the rows of the owners other than u
RowsOfOthers(tbl, u) == [i \in {j \in DOMAIN tbl : tbl[j].user_id # u} |-> tbl[i]]

\* the pending alarms of the tasks that owners other than u hold in tbl
AlarmsOfOthers(q, tbl, u) ==
    SelectSeq(q, LAMBDA j : \E i \in DOMAIN tbl : tbl[i].user_id # u /\ j.name = Fmt(i))

\* C20: the reply of list_tasks to user u holds rows of u only, and a
\* delete_task or mark_completed of user u leaves the rows of all other
\* owners and the pending alarms of their tasks as they are.
C20_OwnerIsolation ==
    [][/\ ListReplies =>
            \A k \in 1..Len(listed'.rows) :
                /\ tasks[listed'.rows[k]].user_id = listed'.user
                /\ handler'.reply.lines[k] = TaskLine(listed'.rows[k], tasks[listed'.rows[k]])
       /\ \A u \in Users, args \in IdArgs :
            ((Handles("delete") /\ DeleteTask(u, u, args, "none"))
                \/ (Handles("complete") /\ MarkCompleted(u, u, args, "none")))
            => /\ RowsOfOthers(tasks', u) = RowsOfOthers(tasks, u)
               /\ AlarmsOfOthers(jobs', tasks, u) = AlarmsOfOthers(jobs, tasks, u)]_vars

\* a delete_task naming another owner's task has replied 'not found'; the
\* row and its alarm are still there
C20_Witness ==
    /\ handler.pc = "replying"
    /\ handler.reply.text = DeleteNotFound
    /\ handler.reply.task_id \in DOMAIN tasks
    /\ PendingFor(jobs, handler.reply.task_id) # {}

\* a handler's first step changes no row and no alarm
NoRowNoAlarmChanged ==
    <<tasks, seq, jobs, running>>' = <<tasks, seq, jobs, running>>

\* C21: a delete_task whose id has no row or a row of another owner, and a
\* mark_completed whose id has no row, a row of another owner or a row
\* already completed, replies the operation's not-found text and leaves
\* every row and every alarm as it is.
C21_NotFoundChangesNothing ==
    [][/\ Handles("delete") =>
            \A u \in Users, args \in IdArgs :
                (IntOf(args[1]) \notin OwnedBy(u) /\ DeleteTask(u, u, args, "none"))
                => handler'.reply.text = DeleteNotFound /\ NoRowNoAlarmChanged
       /\ Handles("complete") =>
            \A u \in Users, args \in IdArgs :
                (/\ \/ IntOf(args[1]) \notin OwnedBy(u)
                    \/ tasks[IntOf(args[1])].completed
                 /\ MarkCompleted(u, u, args, "none"))
                => handler'.reply.text = CompleteNotFound /\ NoRowNoAlarmChanged]_vars

\* a delete_task of another owner's task has replied 'not found' after a
\* mark_completed of a completed task did; the row and its alarm are there
C21_Witness ==
    /\ handler.pc = "replying"
    /\ handler.cmd = "delete"
    /\ handler.reply.text = DeleteNotFound
    /\ handler.reply.task_id \in DOMAIN tasks
    /\ tasks[handler.reply.task_id].completed
    /\ PendingFor(jobs, handler.reply.task_id) # {}
    /\ completed_ok # {}

\* C22: a request rejected for malformed arguments (/add without exactly
\* three fields or with a deadline that is no date in the format; /delete
\* or /complete without a first argument of decimal digits) is answered
\* with the usage or format message of its command, makes no sqlite3 call
\* and changes no row and no alarm.
C22_MalformedGetsUsage ==
    [][/\ Handles("add") =>
            \A text \in AnyTexts :
                (~DeadlineOf[text].ok /\ AddTask(1, 1, text, "none"))
                => /\ handler'.reply.text
                        = IF Len(Split(text)) # 3 THEN AddUsage ELSE AddBadDate
                   /\ handler'.db = <<>>
                   /\ NoRowNoAlarmChanged
       /\ Handles("delete") =>
            \A args \in BadArgs :
                DeleteTask(1, 1, args, "none")
                => /\ handler'.reply.text = DeleteUsage
                   /\ handler'.db = <<>>
                   /\ NoRowNoAlarmChanged
       /\ Handles("complete") =>
            \A args \in BadArgs :
                MarkCompleted(1, 1, args, "none")
                => /\ handler'.reply.text = CompleteUsage
                   /\ handler'.db = <<>>
                   /\ NoRowNoAlarmChanged]_vars

\* the reply texts of the except clauses of a command's handler
ErrorTexts(cmd) ==
    IF cmd = "add" THEN {AddDbError, AddError}
    ELSE IF cmd = "delete" THEN {DeleteDbError, DeleteError}
    ELSE IF cmd = "complete" THEN {CompleteDbError, CompleteError}
    ELSE {ListDbError, ListError}

\* C23: an exception raised at any step of add_task, list_tasks, delete_task
\* or mark_completed is caught in the handler and answered with the
\* database-error or unexpected-error text of that command; no exception
\* leaves a handler for the dispatcher.
C23_NoExceptionEscapes ==
    /\ [][(handler.pc = "replying" /\ handler'.pc = "replying")
            => handler'.reply.text \in ErrorTexts(handler.cmd)]_vars
    /\ [](~escaped)

\* C24: a delete_task of a task the caller owns removes the row and replies
\* 'Task deleted successfully!' whether or not an alarm is pending under
\* the task id (it has fired, or the process was restarted since the add).
C24_DeleteWithoutAlarm ==
    [][Handles("delete") =>
        \A args \in IdArgs :
            (IntOf(args[1]) \in OwnedBy(1) /\ DeleteTask(1, 1, args, "none"))
            => /\ handler'.reply.text = DeleteOk
               /\ DOMAIN tasks' = DOMAIN tasks \ {IntOf(args[1])}
               /\ PendingFor(jobs', IntOf(args[1])) = {}]_vars

\* a task whose alarm had fired has been deleted, and so has a task whose
\* alarm was lost in a restart
C24_Witness ==
    /\ handler.pc = "replying"
    /\ handler.reply.text = DeleteOk
    /\ boots > 1
    /\ due_now[handler.reply.task_id] = 0
    /\ \E i \in deleted_ok : due_now[i] = 1

\* await context.bot.send_message(job.chat_id, ...): the chat an alarm
\* sends its notification to
AlarmRecipient(job) == job.chat_id

\* await bot.send_message(chat_id=user_id, ...): the chat the sweep sends
\* the reminder of a row to
SweepRecipient(row) == row.user_id

\* the alarm callback of job ends with its notification delivered
AlarmDelivers(job) ==
    /\ job \in running
    /\ running' = running \ {job}
    /\ due_now' # due_now

\* C25: an alarm that delivers its 'due now' notification for a task that
\* has a row sends it to the chat the sweep sends the reminder of that
\* row to, the task's owner, and its payload names the task's id and
\* description.
C25_NotificationToOwner ==
    [][\A job \in running :
          (AlarmDelivers(job) /\ IntOf(job.name) \in DOMAIN tasks)
          => LET row == tasks[IntOf(job.name)]
             IN  /\ AlarmRecipient(job) = SweepRecipient(row)
                 /\ SweepRecipient(row) = row.user_id
                 /\ job.data.task_id = job.name
                 /\ job.data.message[2] = row.description]_vars

\* C26: every row of the table has a description and a category that are
\* not empty after trimming.
C26_RowsHaveText ==
    \A i \in DOMAIN tasks :
        Strip(tasks[i].description) # <<>> /\ Strip(tasks[i].category) # <<>>

\* the alarm callback of job ends without a delivery
AlarmFails(job) ==
    /\ job \in running
    /\ running' = running \ {job}
    /\ due_now' = due_now

\* task i has neither a pending alarm nor a running alarm callback
Retired(i) == PendingFor(jobs, i) = {} /\ RunningFor(i) = {}

\* C27: an alarm callback whose send fails ends without an exception
\* leaving it, delivers nothing, is not put back in the queue and leaves
\* the pending alarms and the other running callbacks as they were; a
\* task whose alarm is retired gets no alarm and no 'due now' delivery
\* afterwards.
C27_FailedAlarmIsRetired ==
    /\ [][\A job \in running :
            AlarmFails(job)
            => /\ jobs' = jobs
               /\ PendingFor(jobs', IntOf(job.name)) = {}
               /\ due_24h' = due_24h
               /\ escaped' = escaped
               /\ handler' = handler]_vars
    /\ [][\A i \in 1..seq :
            Retired(i) => Retired(i)' /\ due_now'[i] = due_now[i]]_vars

\* the alarm of one task has failed (its row is there, nothing was
\* delivered and no alarm is left) while the alarm of another is pending
C27_Witness ==
    \E i, j \in DOMAIN tasks :
        /\ Retired(i) /\ due_now[i] = 0
        /\ PendingFor(jobs, j) # {}
        /\ ~escaped

\* the process is started again
Restarts == boots' = boots + 1

\* C28: a restart keeps every row and the id counter and starts with no
\* alarm at all; a task that has no alarm, pending or running, gets none
\* later and no 'due now' notification; a delete of an owned task after a
\* restart replies success and removes the row.
C28_AlarmsLostOnRestart ==
    /\ [][Restarts => /\ tasks' = tasks /\ seq' = seq
                      /\ jobs' = <<>> /\ running' = {}
                      /\ \A i \in DOMAIN tasks : Retired(i)']_vars
    /\ [][\A i \in DOMAIN tasks :
            Retired(i) /\ i \in DOMAIN tasks'
            => Retired(i)' /\ due_now'[i] = due_now[i]]_vars
    /\ [][(boots > 1 /\ Handles("delete")) =>
            \A args \in IdArgs :
                (IntOf(args[1]) \in OwnedBy(1) /\ DeleteTask(1, 1, args, "none"))
                => /\ handler'.reply.text = DeleteOk
                   /\ IntOf(args[1]) \notin DOMAIN tasks']_vars

\* after a restart the deadline of a task added before it has passed: the
\* row is there, no alarm is left for it, no 'due now' notification was
\* delivered, and the sweep has sent its reminder
C28_Witness ==
    /\ boots > 1
    /\ \E i \in DOMAIN tasks :
          /\ Retired(i)
          /\ DeadlineAt(tasks[i]) <= now
          /\ due_now[i] = 0
          /\ due_24h[i] = 1

\* the fields of a row that say which task it is
SameTask(r1, r2) ==
    /\ r1.user_id = r2.user_id
    /\ r1.description = r2.description
    /\ r1.category = r2.category
    /\ r1.deadline = r2.deadline

\* C29: every add that replies success creates one row more, whatever the
\* rows already there, under an id above every id of the table and every
\* id deleted before, and one alarm more, named by that id; the id of a
\* row never changes.
C29_AddNeverReusesId ==
    /\ [][(Handles("add") /\ handler'.reply.text = AddOk) =>
            LET id == handler'.reply.task_id
            IN  /\ DOMAIN tasks' \ DOMAIN tasks = {id}
                /\ DOMAIN tasks \subseteq DOMAIN tasks'
                /\ \A j \in DOMAIN tasks \cup deleted_ok : j < id
                /\ Len(jobs') = Len(jobs) + 1
                /\ SubSeq(jobs', 1, Len(jobs)) = jobs
                /\ PendingFor(jobs', id) = {Len(jobs')}]_vars
    /\ [][\A i \in DOMAIN tasks \cap DOMAIN tasks' :
            SameTask(tasks'[i], tasks[i])]_vars

\* two adds of the same user with the same text have given two rows and
\* two pending alarms
C29_Witness ==
    /\ DOMAIN tasks = {1, 2}
    /\ SameTask(tasks[1], tasks[2])
    /\ PendingFor(jobs, 1) # {}
    /\ PendingFor(jobs, 2) # {}
    /\ PendingFor(jobs, 1) # PendingFor(jobs, 2)

\* the sweep thread has been started
SweepThreadStarted == loop_pc # "off"

\* C30: init_db is called once, before any handler is registered; the six
\* handlers are registered in the order start, help, add, list, delete,
\* complete, all before the sweep thread is started; one sweep thread is
\* started, before run_polling; so the sweep loop runs only after init_db
\* and polling only after all of them.
C30_StartupOrder ==
    /\ startup.init_db <= 1
    /\ startup.threads <= 1
    /\ startup.handlers = SubSeq(HandlerOrder, 1, Len(startup.handlers))
    /\ startup.handlers # <<>> => startup.init_db = 1
    /\ startup.threads = 1 => startup.handlers = HandlerOrder
    /\ SweepThreadStarted <=> startup.threads = 1
    /\ main_pc \in {"polling", "joining"} => startup = Started
    /\ handler.pc # "idle" => startup = Started

\* the sweep loop has sent a reminder after main went through its start-up
C30_Witness ==
    /\ startup = Started
    /\ main_pc = "polling"
    /\ \E i \in DOMAIN tasks : due_24h[i] = 1

\* a command handler is started
Invoked == handler.pc = "idle" /\ handler' # handler

\* the reply the handler awaits is delivered
ReplyDelivered == handler.pc = "replying" /\ handler' # handler

\* C31: with every reply_text succeeding, a handler that is started
\* awaits a reply, and the delivery of a reply ends the handler, which
\* has had no reply delivered before: one reply for each invocation.
C31_ExactlyOneReply ==
    /\ [][Invoked => handler'.pc = "replying" /\ handler'.reply.text # ""]_vars
    /\ [][ReplyDelivered => handler' = Idle /\ handler.sent = 0]_vars

\* the scheduler hands job to the event loop
Fires(job) == job \notin running /\ job \in running'

\* C32: the alarm of a task is registered for a time that is not before
\* the task's deadline (the time of the add plus the delay deadline - now),
\* the scheduler runs it only when the clock has reached the deadline, and
\* a 'due now' notification is delivered only then.
C32_NoAlarmBeforeDeadline ==
    /\ [](\A k \in 1..Len(jobs) :
            IntOf(jobs[k].name) \in DOMAIN tasks
            => jobs[k].when >= DeadlineAt(tasks[IntOf(jobs[k].name)]))
    /\ [][(Handles("add") /\ handler'.reply.text = AddOk)
            => jobs'[Len(jobs')].when
                  = now + (DeadlineAt(tasks'[handler'.reply.task_id]) - now)]_vars
    /\ [][\A k \in 1..Len(jobs) :
            (Fires(jobs[k]) /\ IntOf(jobs[k].name) \in DOMAIN tasks)
            => DeadlineAt(tasks[IntOf(jobs[k].name)]) <= now]_vars
    /\ [](\A i \in DOMAIN tasks :
            due_now[i] > 0 => DeadlineAt(tasks[i]) <= now)

\* one task has had its 'due now' notification, at its deadline, while the
\* alarm of another task is still pending
C32_Witness ==
    \E i, j \in DOMAIN tasks :
        /\ due_now[i] = 1
        /\ DeadlineAt(tasks[i]) <= now
        /\ PendingFor(jobs, j) # {}

\* C33: an add that replies one of its two failure texts has created no
\* row and registered no alarm.
C33_FailedAddLeavesNothing ==
    [][(Handles("add") /\ handler'.reply.text \in {AddDbError, AddError})
        => tasks' = tasks /\ jobs' = jobs]_vars

\* the sweep delivers the reminder of the first of the rows it fetched
SendsReminder == loop_pc = "send" /\ due_24h' # due_24h

\* C34: the sweep delivers no 'due in 24 hours' reminder for a task whose
\* delete or complete has replied success by the time of the delivery.
C34_NoReminderAfterDeleteOrComplete ==
    [][SendsReminder
        => Head(due_tasks).task_id \notin deleted_ok \cup completed_ok]_vars

\* C35: in one run of the sweep loop no task gets more than one 'due in 24
\* hours' reminder, and a task that is neither deleted nor completed has
\* had exactly one when its deadline is reached.
C35_OneReminderBeforeDeadline ==
    /\ \A i \in TaskIds : due_24h[i] <= 1
    /\ \A i \in DOMAIN tasks :
          (~tasks[i].completed /\ DeadlineAt(tasks[i]) <= now)
          => due_24h[i] = 1

\* a step of an alarm: the scheduler runs a job or its callback ends
AlarmStep == running' # running

\* a step of the sweep: a poll that starts it, its query or one of its sends
SweepStep ==
    /\ loop_pc \in {"test", "query", "send"}
    /\ loop_pc' # loop_pc \/ due_tasks' # due_tasks

\* C36: the completed flag of a row never goes back to false; a row
\* leaves the table only in a delete that replies success; no step of an
\* alarm and no step of the sweep changes the table, and no step of the
\* sweep changes the pending alarms or the running callbacks.
C36_RowsChangeOnlyByHandlers ==
    /\ [][\A i \in DOMAIN tasks \cap DOMAIN tasks' :
            tasks[i].completed => tasks'[i].completed]_vars
    /\ [][~(DOMAIN tasks \subseteq DOMAIN tasks')
            => Handles("delete") /\ handler'.reply.text = DeleteOk]_vars
    /\ [][AlarmStep => tasks' = tasks /\ seq' = seq]_vars
    /\ [][SweepStep => /\ tasks' = tasks /\ seq' = seq
                       /\ jobs' = jobs /\ running' = running]_vars

\* the row of a completed task is there, completed, after its alarm has
\* delivered its notification and the sweep has sent a reminder
C36_Witness ==
    \E i \in DOMAIN tasks :
        /\ i \in completed_ok
        /\ tasks[i].completed
        /\ due_now[i] = 1
        /\ due_24h[i] = 1

\* the id a handler step has replied about
Replied == handler'.reply.task_id

====
